---- MODULE Spec2Model ----
(***************************************************************************)
(* CoffeeCopilot: the relational store (roasters, products, variants,      *)
(* product_extended_details, order_history), the three SQL views of        *)
(* database.py, the order manager, the attribute store of                  *)
(* enhance_products.py and the recommender of recommend_coffee.py.         *)
(*                                                                         *)
(* Text columns that the SQL inspects with LOWER / LIKE / '=' are          *)
(* sequences of one-character strings, so substring search and case        *)
(* folding are computed.  Text columns that are only copied are plain      *)
(* strings, and text built by str.join is the sequence of its pieces.      *)
(* The SQL NULL / Python None is NULL in a plain-string column, NullText   *)
(* in a sequence-valued column and NullInt in an integer column.           *)
(***************************************************************************)
EXTENDS Integers, Sequences, FiniteSets, TLC

NULL == "NULL"
NullText == <<"NULL">>
NullInt == 0 - 1

\* ------------------------------------------------------------------ bounds
\* Spec and SpecCatalog: product ids in use; Spec: rows of the ledger
MaxProducts == 2
MaxOrders == 1
\* SpecLedger: product ids in use and rows of the ledger
LedgerProducts == 2
LedgerOrders == 2
\* SpecBudget: product ids in use and rows of the ledger
BudgetProducts == 1
BudgetOrders == 2

\* ------------------------------------------------------------------ text
UpperChars == <<"A","B","C","D","E","F","G","H","I","J","K","L","M",
                "N","O","P","Q","R","S","T","U","V","W","X","Y","Z">>
LowerChars == <<"a","b","c","d","e","f","g","h","i","j","k","l","m",
                "n","o","p","q","r","s","t","u","v","w","x","y","z">>

\* SQLite LOWER(): folds the ASCII letters, leaves every other character.
LowerMap ==
    [c \in {UpperChars[i] : i \in DOMAIN UpperChars} |->
        LowerChars[CHOOSE i \in DOMAIN UpperChars : UpperChars[i] = c]]
LowerChar(c) == IF c \in DOMAIN LowerMap THEN LowerMap[c] ELSE c

Lower(s) == [i \in DOMAIN s |-> LowerChar(s[i])]

\* pat occurs in s as a contiguous substring
Contains(s, pat) ==
    \E i \in 0..(Len(s) - Len(pat)) : SubSeq(s, i + 1, i + Len(pat)) = pat

\* SQLite  s LIKE '%pat%'  : ASCII case-insensitive; NULL LIKE ... is not true.
Like(s, pat) == s # NullText /\ Contains(Lower(s), Lower(pat))

\* the literals of the queries
S_bean == <<"b","e","a","n">>
S_250 == <<"2","5","0">>
S_200g == <<"2","0","0","g">>
S_espresso == <<"e","s","p","r","e","s","s","o">>
S_subscription == <<"s","u","b","s","c","r","i","p","t","i","o","n">>
S_decaf == <<"d","e","c","a","f">>
S_voucher == <<"v","o","u","c","h","e","r">>
S_blend == <<"b","l","e","n","d">>
S_and == <<" ","a","n","d"," ">>
S_amp == <<" ","&"," ">>
S_AAZ_B2B == <<"A","A","Z"," ","B","2","B">>
S_READY_TO_DRINK == <<"R","E","A","D","Y"," ","T","O"," ","D","R","I","N","K">>
S_Whole_Bean == <<"W","h","o","l","e"," ","B","e","a","n">>

\* ------------------------------------------------------------------ inputs
\* titles, option values and vendors that the listings below use
T_Kenya == <<"K","e","n","y","a">>
T_Blend == <<"K","e","n","y","a"," ","B","L","E","N","D">>
O_250g == <<"2","5","0","g">>
O_200g == <<"2","0","0","g">>
O_1kg == <<"1","k","g">>
O_Ground == <<"G","r","o","u","n","d">>
V_Acme == <<"A","c","m","e">>

\* config.yaml roasters: name (the key store_data is called with) and the
\* description shown to the user
RoasterNames == {"acme", "bolt"}
Description(r) == IF r = "acme" THEN "Acme Coffee" ELSE "Bolt Roasters"

\* One scraped variant row and one scraped product row (shopify_scraper).
VRow(o1, o2, o3, g, av, pr, pt, vd) ==
    [option1 |-> o1, option2 |-> o2, option3 |-> o3, grams |-> g,
     available |-> av, price |-> pr, parent_title |-> pt, vendor |-> vd]
PRow(t, u, vs) == [title |-> t, url |-> u, variants |-> vs]

\* The listings a scrape can return (prices in cents).  ListingSizes: three pack sizes of one
\* coffee; ListingPlain: one coffee in one size; ListingMixed: a ground and
\* a sold-out variant of the coffee, and a blend.
ListingSizes ==
    << PRow(T_Kenya, "u/kenya",
            << VRow(O_250g, S_Whole_Bean, NullText, 250, 1, 2000, T_Kenya, V_Acme),
               VRow(O_200g, S_Whole_Bean, NullText, 200, 1, 1800, T_Kenya, V_Acme),
               VRow(O_1kg, S_Whole_Bean, NullText, 1000, 1, 6000, T_Kenya, V_Acme) >>) >>
ListingPlain ==
    << PRow(T_Kenya, "u/kenya",
            << VRow(O_250g, S_Whole_Bean, NullText, 250, 1, 2000, T_Kenya, V_Acme) >>) >>
ListingMixed ==
    << PRow(T_Kenya, "u/kenya",
            << VRow(O_250g, O_Ground, NullText, 250, 1, 2000, T_Kenya, V_Acme),
               VRow(O_250g, S_Whole_Bean, NullText, 250, 0, 2000, T_Kenya, V_Acme) >>),
       PRow(T_Blend, "u/blend",
            << VRow(O_250g, S_Whole_Bean, NullText, 250, 1, 1800, T_Blend, V_Acme) >>) >>
Listings == {ListingSizes, ListingPlain, ListingMixed}

\* ListingExcluded: one coffee whose 250 g whole-bean variant passes the
\* WHERE clause of whole_beans_view beside lighter variants that each fail
\* one condition of it (ground, 100 g, excluded vendor, ready to drink,
\* sold out), and a decaf of the same roaster
T_Decaf == <<"K","e","n","y","a"," ","D","E","C","A","F">>
O_100g == <<"1","0","0","g">>
ListingExcluded ==
    << PRow(T_Kenya, "u/kenya",
            << VRow(O_250g, S_Whole_Bean, NullText, 250, 1, 2000, T_Kenya, V_Acme),
               VRow(O_200g, O_Ground, NullText, 200, 1, 1800, T_Kenya, V_Acme),
               VRow(O_100g, S_Whole_Bean, NullText, 100, 1, 900, T_Kenya, V_Acme),
               VRow(O_200g, S_Whole_Bean, NullText, 200, 1, 1800, T_Kenya, S_AAZ_B2B),
               VRow(O_200g, S_Whole_Bean, S_READY_TO_DRINK, 200, 1, 1800, T_Kenya, V_Acme),
               VRow(O_200g, S_Whole_Bean, NullText, 200, 0, 1800, T_Kenya, V_Acme) >>) >>
\* the coffee of ListingPlain, sold out
ListingSoldOut ==
    << PRow(T_Kenya, "u/kenya",
            << VRow(O_250g, S_Whole_Bean, NullText, 250, 0, 2000, T_Kenya, V_Acme) >>) >>
\* listings whose titles the coffee_type CASE inspects
T_And == <<"K","e","n","y","a"," ","a","n","d"," ","P","e","r","u">>
T_Amp == <<"K","e","n","y","a"," ","&"," ","P","e","r","u">>
ListingBlend ==
    << PRow(T_Blend, "u/blend",
            << VRow(O_250g, S_Whole_Bean, NullText, 250, 1, 1800, T_Blend, V_Acme) >>) >>
ListingAnd ==
    << PRow(T_And, "u/and",
            << VRow(O_250g, S_Whole_Bean, NullText, 250, 1, 1800, T_And, V_Acme) >>) >>
ListingAmp ==
    << PRow(T_Amp, "u/amp",
            << VRow(O_250g, S_Whole_Bean, NullText, 250, 1, 1800, T_Amp, V_Acme) >>) >>
ListingDecaf ==
    << PRow(T_Decaf, "u/decaf",
            << VRow(O_250g, S_Whole_Bean, NullText, 250, 1, 2000, T_Decaf, V_Acme) >>) >>

\* ------------------------------------------------------------------ state
VARIABLES
    roasters,        \* roasters table: the names of the stored rows
    products,        \* products table: id -> row
    variants,        \* variants table: id -> row
    details,         \* product_extended_details: product id -> row (unique)
    orders,          \* order_history table, in insertion order
    last             \* the last call: its arguments, what it returned or raised

vars == <<roasters, products, variants, details, orders, last>>

Max(S) == CHOOSE x \in S : \A y \in S : y <= x
\* SQLite INTEGER PRIMARY KEY (no AUTOINCREMENT): largest rowid in use + 1
NextId(S) == IF S = {} THEN 1 ELSE Max(S) + 1

\* ------------------------------------------------------------------ views
\* whole_beans_view, FROM clause: variants JOIN products JOIN roasters
Joined(vid) ==
    /\ variants[vid].product_id \in DOMAIN products
    /\ products[variants[vid].product_id].roaster \in roasters

\* r.name of the row: the roaster the variant's product belongs to
RoasterOf(vid) == products[variants[vid].product_id].roaster

\* LOWER(s) NOT LIKE '%pat%' : not true for NULL
NotLike(s, pat) == s # NullText /\ ~Contains(Lower(s), Lower(pat))

\* the WHERE clause without its last condition, v.available = 1
IncludedSoldOut(v) ==
    /\ Like(v.option2, S_bean)
    /\ (Like(v.option1, S_250) \/ Like(v.option1, S_200g))
    /\ NotLike(v.parent_title, S_espresso)
    /\ NotLike(v.parent_title, S_subscription)
    /\ NotLike(v.parent_title, S_decaf)
    /\ NotLike(v.parent_title, S_voucher)
    /\ v.vendor # NullText /\ v.vendor # S_AAZ_B2B
    /\ (v.option3 = NullText \/ v.option3 # S_READY_TO_DRINK)

\* whole_beans_view, WHERE clause
Included(v) ==
    /\ Like(v.option2, S_bean)
    /\ (Like(v.option1, S_250) \/ Like(v.option1, S_200g))
    /\ NotLike(v.parent_title, S_espresso)
    /\ NotLike(v.parent_title, S_subscription)
    /\ NotLike(v.parent_title, S_decaf)
    /\ NotLike(v.parent_title, S_voucher)
    /\ v.vendor # NullText /\ v.vendor # S_AAZ_B2B
    /\ (v.option3 = NullText \/ v.option3 # S_READY_TO_DRINK)
    /\ v.available = 1

\* the rows of the CTE ranked_variants
RankedVariants == {vid \in DOMAIN variants : Joined(vid) /\ Included(variants[vid])}

\* PARTITION BY v.parent_title, r.name : the key of a row's group
GroupKey(vid) == <<variants[vid].parent_title, RoasterOf(vid)>>
SamePartition(a, b) == GroupKey(a) = GroupKey(b)

\* the orders in which the engine can hand over a set of rows
RECURSIVE Orderings(_)
Orderings(S) ==
    IF S = {} THEN {<<>>}
    ELSE UNION {{<<x>> \o rest : rest \in Orderings(S \ {x})} : x \in S}

\* ORDER BY v.grams DESC in place of ORDER BY v.grams: the largest pack
\* would rank first
OrderedByGramsDesc(rows) ==
    \A i, j \in DOMAIN rows :
        (i < j /\ SamePartition(rows[i], rows[j]))
            => variants[rows[i]].grams >= variants[rows[j]].grams

\* ORDER BY v.grams within a partition: a row never follows a row of its
\* partition that has more grams; rows of equal grams come in any order
OrderedByGrams(rows) ==
    \A i, j \in DOMAIN rows :
        (i < j /\ SamePartition(rows[i], rows[j]))
            => variants[rows[i]].grams <= variants[rows[j]].grams

\* ROW_NUMBER() OVER (PARTITION BY ... ORDER BY ...) of the i-th row
RowNumber(rows, i) == Cardinality({j \in 1..i : SamePartition(rows[j], rows[i])})

\* WHERE rv.rank = 1 : every result the engine may produce for the view, as
\* a set of variant ids
WholeBeansViews ==
    {{rows[i] : i \in {k \in DOMAIN rows : RowNumber(rows, k) = 1}} :
        rows \in {o \in Orderings(RankedVariants) : OrderedByGrams(o)}}

\* a product_extended_details row whose columns are all NULL: what a LEFT
\* JOIN yields for a product without a row
NoDetails ==
    [is_single_origin |-> NullInt, origin_country |-> NULL, origin_region |-> NULL,
     roast_level |-> NULL, processing_method |-> NULL, varietals |-> NullText,
     altitude |-> NULL, farm |-> NullText, producer |-> NULL,
     tasting_notes |-> NULL, resting_period_days |-> NullInt,
     extraction_confidence |-> NullInt]

\* the attributes never joined: every product reads as one without a row
DetailsOfProductAbsent(pid) == NoDetails

\* LEFT JOIN product_extended_details ed ON p.id = ed.product_id
DetailsOfProduct(pid) == IF pid \in DOMAIN details THEN details[pid] ELSE NoDetails
DetailsOf(vid) == DetailsOfProduct(variants[vid].product_id)

\* the CASE expression with the flag consulted before the title
CoffeeTypeFlagFirst(vid) ==
    LET t == variants[vid].parent_title
        ed == DetailsOf(vid)
    IN  IF ed.is_single_origin = 1 THEN "Single Origin"
        ELSE IF ed.is_single_origin = 0 THEN "Blend"
        ELSE IF Like(t, S_blend) THEN "Blend"
        ELSE IF Like(t, S_and) \/ Like(t, S_amp) THEN "Blend"
        ELSE "Unknown"

\* the CASE expression coffee_type
CoffeeType(vid) ==
    LET t == variants[vid].parent_title
        ed == DetailsOf(vid)
    IN  IF Like(t, S_blend) THEN "Blend"
        ELSE IF ed.is_single_origin = 1 THEN "Single Origin"
        ELSE IF ed.is_single_origin = 0 THEN "Blend"
        ELSE IF Like(t, S_and) \/ Like(t, S_amp) THEN "Blend"
        ELSE "Unknown"

\* the view without its NOT EXISTS clause: every row passes
NotOrderedUnfiltered(vid) == vid \in DOMAIN variants

\* the NOT EXISTS clause comparing the variant ids with != in place of =
NotOrderedOtherVariant(vid) ==
    ~\E i \in DOMAIN orders :
        /\ orders[i].product_id = variants[vid].product_id
        /\ orders[i].variant_id # vid

\* NOT EXISTS (SELECT 1 FROM order_history oh WHERE oh.product_id = ... AND
\* oh.variant_id = ...)
NotOrdered(vid) ==
    ~\E i \in DOMAIN orders :
        /\ orders[i].product_id = variants[vid].product_id
        /\ orders[i].variant_id = vid

\* the view without  AND wb.coffee_type = 'Single Origin'
AvailableOptionsViewAnyType(W) == {vid \in W : NotOrdered(vid)}

\* available_options_view over one result W of whole_beans_view
AvailableOptionsView(W) ==
    {vid \in W : NotOrdered(vid) /\ CoffeeType(vid) = "Single Origin"}

\* the identity (product id, variant id) of a view row
Identity(vid) == <<variants[vid].product_id, vid>>

\* ------------------------------------------------------------------ catalog
\* store_data, the variants loop: one Variant row per scraped variant
RECURSIVE AddVariants(_, _, _)
AddVariants(vs, pid, vrows) ==
    IF vrows = <<>> THEN vs
    ELSE AddVariants(
            vs @@ (NextId(DOMAIN vs) :>
                     [product_id |-> pid,
                      parent_title |-> Head(vrows).parent_title,
                      vendor |-> Head(vrows).vendor,
                      grams |-> Head(vrows).grams,
                      option1 |-> Head(vrows).option1,
                      option2 |-> Head(vrows).option2,
                      option3 |-> Head(vrows).option3,
                      available |-> Head(vrows).available,
                      price |-> Head(vrows).price]),
            pid, Tail(vrows))

\* store_data, the products loop: a new Product row per scraped product
\* (parent_title is not set), then its variants
RECURSIVE AddProducts(_, _, _)
AddProducts(db, r, rows) ==
    IF rows = <<>> THEN db
    ELSE LET pid == NextId(DOMAIN db.products)
         IN  AddProducts(
                [products |-> db.products @@ (pid :>
                                [roaster |-> r,
                                 title |-> Head(rows).title,
                                 parent_title |-> NullText,
                                 url |-> Head(rows).url]),
                 variants |-> AddVariants(db.variants, pid, Head(rows).variants)],
                r, Tail(rows))

\* store_data(roaster_name, roaster_url, products_df, variants_df, session)
StoreData(r, listing) ==
    /\ LET db == AddProducts([products |-> products, variants |-> variants], r, listing)
       IN  /\ products' = db.products
           /\ variants' = db.variants
    /\ roasters' = roasters \cup {r}
    /\ last' = [op |-> "store_data"]
    /\ UNCHANGED <<details, orders>>

\* the cascade reaching order_history as well: the orders of the product
\* are deleted with it
DeleteProductAndOrders(pid) ==
    /\ pid \in DOMAIN products
    /\ products' = [p \in DOMAIN products \ {pid} |-> products[p]]
    /\ variants' = [v \in {x \in DOMAIN variants : variants[x].product_id # pid}
                      |-> variants[v]]
    /\ details' = [p \in DOMAIN details \ {pid} |-> details[p]]
    /\ orders' = SelectSeq(orders, LAMBDA o : o.product_id # pid)
    /\ last' = [op |-> "delete_product"]
    /\ UNCHANGED roasters

\* session.delete(product): the cascade="all, delete-orphan" relationships of
\* Product remove its variants and its extended details; order_history rows
\* are not part of the cascade.
DeleteProduct(pid) ==
    /\ pid \in DOMAIN products
    /\ products' = [p \in DOMAIN products \ {pid} |-> products[p]]
    /\ variants' = [v \in {x \in DOMAIN variants : variants[x].product_id # pid}
                      |-> variants[v]]
    /\ details' = [p \in DOMAIN details \ {pid} |-> details[p]]
    /\ last' = [op |-> "delete_product"]
    /\ UNCHANGED <<roasters, orders>>

\* ------------------------------------------------------------------ attributes
\* dict.get(key, default)
Get(d, k, default) == IF k \in DOMAIN d THEN d[k] ELSE default

\* sep.join(list) : the pieces with the separator between them
RECURSIVE Join(_, _)
Join(list, sep) ==
    IF list = <<>> THEN <<>>
    ELSE IF Len(list) = 1 THEN <<Head(list)>>
    ELSE <<Head(list), sep>> \o Join(Tail(list), sep)

\* A Python value whose type varies is tagged: [str |-> s], [list |-> l]
\* or [none |-> TRUE].
PyStr(x) == [str |-> x]
PyList(l) == [list |-> l]
PyNone == [none |-> TRUE]

\* what the extraction collaborator can hand back: a full single-origin
\* result, _get_empty_result(), and a result that omits most keys.
\* is_single_origin is "True", "False" or NULL (None).
CoffeeFull ==
    [is_single_origin |-> "True",
     origin |-> [country |-> "Kenya", region |-> "Nyeri"],
     roast_level |-> "Light",
     processing_method |-> "Washed",
     varietals |-> <<"SL28", "SL34">>,
     altitude |-> "1800m",
     farm |-> PyList(<<"Gatomboya", "Karogoto">>),
     producer |-> "Barichu",
     tasting_notes |-> "{fruits: [Blackcurrant]}",
     resting_period_days |-> 10,
     confidence_score |-> 90]
CoffeeEmpty ==
    [is_single_origin |-> NULL,
     origin |-> [country |-> NULL, region |-> NULL],
     roast_level |-> NULL,
     processing_method |-> NULL,
     varietals |-> <<>>,
     altitude |-> NULL,
     farm |-> PyNone,
     producer |-> NULL,
     tasting_notes |-> "{fruits: []}",
     confidence_score |-> 0]
CoffeeSparse ==
    [is_single_origin |-> "True",
     origin |-> [country |-> "Peru"],
     farm |-> PyStr("El Cedro")]
CoffeeData == {CoffeeFull, CoffeeEmpty, CoffeeSparse}
\* a result that flags a blend
CoffeeBlended ==
    [is_single_origin |-> "False",
     origin |-> [country |-> NULL, region |-> NULL],
     varietals |-> <<>>,
     farm |-> PyNone,
     confidence_score |-> 70]

\* the ProductExtendedDetails row store_extended_details builds
ExtendedDetails(coffee_data) ==
    LET farm == Get(coffee_data, "farm", PyNone)
        origin == Get(coffee_data, "origin", <<>>)
        so == Get(coffee_data, "is_single_origin", NULL)
        vs == Get(coffee_data, "varietals", <<>>)
    IN  [is_single_origin |-> IF so = "True" THEN 1 ELSE IF so = "False" THEN 0 ELSE NullInt,
         origin_country |-> Get(origin, "country", NULL),
         origin_region |-> Get(origin, "region", NULL),
         roast_level |-> Get(coffee_data, "roast_level", NULL),
         processing_method |-> Get(coffee_data, "processing_method", NULL),
         varietals |-> IF vs # <<>> /\ vs # NullText THEN Join(vs, ",") ELSE NullText,
         altitude |-> Get(coffee_data, "altitude", NULL),
         farm |-> IF "list" \in DOMAIN farm THEN Join(farm.list, ", ")
                  ELSE IF "str" \in DOMAIN farm THEN <<farm.str>>
                  ELSE NullText,
         producer |-> Get(coffee_data, "producer", NULL),
         tasting_notes |-> Get(coffee_data, "tasting_notes", NULL),
         resting_period_days |-> Get(coffee_data, "resting_period_days", NullInt),
         extraction_confidence |-> Get(coffee_data, "confidence_score", 0)]

\* store_extended_details updating the existing row in place: a column
\* the new result leaves NULL keeps its value
StoreExtendedDetailsMerging(pid, coffee_data) ==
    [p \in DOMAIN details \cup {pid} |->
        IF p # pid THEN details[p]
        ELSE IF pid \notin DOMAIN details THEN ExtendedDetails(coffee_data)
        ELSE [f \in DOMAIN NoDetails |->
                IF ExtendedDetails(coffee_data)[f] = NoDetails[f]
                THEN details[pid][f] ELSE ExtendedDetails(coffee_data)[f]]]

\* store_extended_details(product, coffee_data, session) followed by the
\* caller's commit: the existing row is deleted, the new row is added
StoreExtendedDetails(pid, coffee_data) ==
    [p \in DOMAIN details \cup {pid} |->
        IF p = pid THEN ExtendedDetails(coffee_data) ELSE details[p]]

\* enhance_single_product writing the new attributes into the product's
\* order_history rows as well
EnhanceSingleProductAndOrders(pid, coffee_data) ==
    /\ IF pid \in DOMAIN products
       THEN /\ details' = StoreExtendedDetails(pid, coffee_data)
            /\ orders' = [i \in DOMAIN orders |->
                             IF orders[i].product_id = pid
                             THEN [orders[i] EXCEPT
                                     !.roast_level = ExtendedDetails(coffee_data).roast_level,
                                     !.origin_country = ExtendedDetails(coffee_data).origin_country]
                             ELSE orders[i]]
            /\ last' = [op |-> "enhance_single_product", outcome |-> "stored"]
       ELSE /\ details' = details
            /\ orders' = orders
            /\ last' = [op |-> "enhance_single_product", outcome |-> "not found"]
    /\ UNCHANGED <<roasters, products, variants>>

\* enhance_single_product(product_id), the extractor answering coffee_data
EnhanceSingleProduct(pid, coffee_data) ==
    /\ IF pid \in DOMAIN products
       THEN /\ details' = StoreExtendedDetails(pid, coffee_data)
            /\ last' = [op |-> "enhance_single_product", outcome |-> "stored"]
       ELSE /\ details' = details
            /\ last' = [op |-> "enhance_single_product", outcome |-> "not found"]
    /\ UNCHANGED <<roasters, products, variants, orders>>

\* enhance_products(), the query: the DISTINCT (parent_title, product_url)
\* of the rows of whole_beans_view whose product has no
\* product_extended_details row
ProductsToEnhance(W) ==
    {<<variants[x].parent_title, products[variants[x].product_id].url>> :
        x \in {y \in W : variants[y].product_id \notin DOMAIN details}}

\* session.query(Product).filter(Product.url == product.product_url).first():
\* the products the lookup can return for a row of the query
ProductsOfUrl(url) == {pid \in DOMAIN products : products[pid].url = url}

\* enhance_products(): every row of the query is looked up by its URL, the
\* extractor answers with one of results (its empty result where it
\* failed), and the record is stored for the product found
EnhanceProducts(results) ==
    /\ \E W \in WholeBeansViews :
         LET found == ProductsToEnhance(W)
         IN  \E db_product \in [found -> DOMAIN products],
                coffee_data \in [found -> results] :
                /\ \A row \in found : db_product[row] \in ProductsOfUrl(row[2])
                /\ details' = [pid \in DOMAIN details \cup {db_product[row] : row \in found} |->
                                  IF \E row \in found : db_product[row] = pid
                                  THEN ExtendedDetails(coffee_data[
                                           CHOOSE row \in found : db_product[row] = pid])
                                  ELSE details[pid]]
                /\ last' = [op |-> "enhance_products", found |-> Cardinality(found)]
    /\ UNCHANGED <<roasters, products, variants, orders>>

\* store_extended_details in its steps, the tables holding what is
\* committed.  First step: the existing row is deleted and the deletion
\* committed.
StoreExtendedDetailsDelete(pid, coffee_data) ==
    /\ pid \in DOMAIN products
    /\ details' = [p \in DOMAIN details \ {pid} |-> details[p]]
    /\ last' = [op |-> "store_extended_details", pc |-> "deleted",
                product_id |-> pid, coffee_data |-> coffee_data, before |-> details]
    /\ UNCHANGED <<roasters, products, variants, orders>>

\* Second step: the new row is built and added, and the caller commits.
StoreExtendedDetailsAdd ==
    /\ last.op = "store_extended_details" /\ last.pc = "deleted"
    /\ details' = StoreExtendedDetails(last.product_id, last.coffee_data)
    /\ last' = [op |-> "enhance_single_product", outcome |-> "stored"]
    /\ UNCHANGED <<roasters, products, variants, orders>>

\* The second step does not complete: building the row raises (str.join
\* over a list that holds a non-string) or the process stops; the session
\* is rolled back or lost, the committed deletion stays.
StoreExtendedDetailsInterrupted ==
    /\ last.op = "store_extended_details" /\ last.pc = "deleted"
    /\ last' = [last EXCEPT !.pc = "interrupted"]
    /\ UNCHANGED <<roasters, products, variants, details, orders>>

\* no call is in progress
Idle == ~(last.op = "store_extended_details" /\ last.pc = "deleted")

\* ------------------------------------------------------------------ order ledger
\* order dates and the clock's readings
Date(y, m, d) == [year |-> y, month |-> m, day |-> d]
NoDate == Date(0, 0, 0)

\* the columns of an order_history row that describe the purchase
SnapshotFields ==
    {"roaster_name", "product_title", "product_url", "option1", "option2",
     "option3", "is_single_origin", "origin_country", "origin_region",
     "roast_level", "processing_method", "varietals", "altitude", "farm",
     "producer", "tasting_notes", "price_paid", "quantity", "order_date"}

\* product.parent_title or product.title
TitleOf(p) ==
    IF p.parent_title # NullText /\ p.parent_title # <<>> THEN p.parent_title
    ELSE p.title

\* the OrderHistory row add_order builds
OrderOfAddOrder(pid, vid, quantity, price_paid, order_date, notes, now) ==
    LET product == products[pid]
        variant == variants[vid]
        extended_details == DetailsOfProduct(pid)
    IN  [id |-> Len(orders) + 1,
         product_id |-> pid,
         variant_id |-> vid,
         quantity |-> quantity,
         price_paid |-> price_paid,
         notes |-> notes,
         order_date |-> IF order_date # NoDate THEN order_date ELSE now,
         roaster_name |-> product.roaster,
         product_title |-> TitleOf(product),
         product_url |-> product.url,
         option1 |-> variant.option1,
         option2 |-> variant.option2,
         option3 |-> variant.option3,
         is_single_origin |-> extended_details.is_single_origin,
         origin_country |-> extended_details.origin_country,
         origin_region |-> extended_details.origin_region,
         roast_level |-> extended_details.roast_level,
         processing_method |-> extended_details.processing_method,
         varietals |-> extended_details.varietals,
         altitude |-> extended_details.altitude,
         farm |-> extended_details.farm,
         producer |-> extended_details.producer,
         tasting_notes |-> extended_details.tasting_notes]

\* add_order returning None for a missing variant in place of raising
AddOrderSilent(pid, vid, quantity, price_paid, order_date, notes, now) ==
    /\ IF pid \notin DOMAIN products
       THEN /\ orders' = orders
            /\ last' = [op |-> "add_order", outcome |-> "ValueError: product not found"]
       ELSE IF vid \notin DOMAIN variants
       THEN /\ orders' = orders
            /\ last' = [op |-> "add_order", outcome |-> "returned None"]
       ELSE /\ orders' = Append(orders,
                   OrderOfAddOrder(pid, vid, quantity, price_paid, order_date, notes, now))
            /\ last' = [op |-> "add_order", outcome |-> "added"]
    /\ UNCHANGED <<roasters, products, variants, details>>

\* add_order skipping the append when the ledger already holds the same
\* purchase
AddOrderOnce(pid, vid, quantity, price_paid, order_date, notes, now) ==
    /\ IF pid \notin DOMAIN products
       THEN /\ orders' = orders
            /\ last' = [op |-> "add_order", outcome |-> "ValueError: product not found"]
       ELSE IF vid \notin DOMAIN variants
       THEN /\ orders' = orders
            /\ last' = [op |-> "add_order", outcome |-> "ValueError: variant not found"]
       ELSE LET order == OrderOfAddOrder(pid, vid, quantity, price_paid, order_date, notes, now)
            IN  /\ orders' = IF \E i \in DOMAIN orders : [orders[i] EXCEPT !.id = order.id] = order
                             THEN orders ELSE Append(orders, order)
                /\ last' = [op |-> "add_order", outcome |-> "added"]
    /\ UNCHANGED <<roasters, products, variants, details>>

\* add_order(product_id, variant_id, quantity, price_paid, order_date, notes)
AddOrder(pid, vid, quantity, price_paid, order_date, notes, now) ==
    /\ IF pid \notin DOMAIN products
       THEN /\ orders' = orders
            /\ last' = [op |-> "add_order", outcome |-> "ValueError: product not found"]
       ELSE IF vid \notin DOMAIN variants
       THEN /\ orders' = orders
            /\ last' = [op |-> "add_order", outcome |-> "ValueError: variant not found"]
       ELSE /\ orders' = Append(orders,
                   OrderOfAddOrder(pid, vid, quantity, price_paid, order_date, notes, now))
            /\ last' = [op |-> "add_order", outcome |-> "added"]
    /\ UNCHANGED <<roasters, products, variants, details>>

\* ------------------------------------------------------------------ order resolver
DigitChars == <<"0","1","2","3","4","5","6","7","8","9">>
IsDigit(c) == \E i \in DOMAIN DigitChars : DigitChars[i] = c
DigitValue(c) == (CHOOSE i \in DOMAIN DigitChars : DigitChars[i] = c) - 1

\* str.strip()
RECURSIVE Strip(_)
Strip(s) ==
    IF s = <<>> THEN s
    ELSE IF Head(s) = " " THEN Strip(Tail(s))
    ELSE IF s[Len(s)] = " " THEN Strip(SubSeq(s, 1, Len(s) - 1))
    ELSE s

\* str.index(c) + 1, or 0 where str.index raises ValueError
IndexOf(s, c) ==
    IF \E i \in DOMAIN s : s[i] = c
    THEN CHOOSE i \in DOMAIN s : s[i] = c /\ \A j \in 1..(i - 1) : s[j] # c
    ELSE 0

\* str.split(sep) for a one-character separator
RECURSIVE Split(_, _)
Split(s, sep) ==
    LET i == IndexOf(s, sep)
    IN  IF i = 0 THEN <<s>>
        ELSE <<SubSeq(s, 1, i - 1)>> \o Split(SubSeq(s, i + 1, Len(s)), sep)

RECURSIVE DigitsValue(_, _)
DigitsValue(s, acc) ==
    IF s = <<>> THEN acc ELSE DigitsValue(Tail(s), 10 * acc + DigitValue(Head(s)))

\* int(s): surrounding blanks and one sign are accepted, then digits only;
\* ok is FALSE where int raises ValueError
ParseInt(s) ==
    LET t == Strip(s)
        signed == t # <<>> /\ Head(t) \in {"+", "-"}
        digits == IF signed THEN Tail(t) ELSE t
    IN  IF digits # <<>> /\ \A i \in DOMAIN digits : IsDigit(digits[i])
        THEN [ok |-> TRUE,
              value |-> IF signed /\ Head(t) = "-"
                        THEN 0 - DigitsValue(digits, 0) ELSE DigitsValue(digits, 0)]
        ELSE [ok |-> FALSE, value |-> 0]

\* add_coffee_order, the reading of coffee_name: "ids" with the two
\* identifiers and the title after "] ", "title" for a name without a
\* leading bracket, "error" where ValueError or IndexError is caught
ParseReference(coffee_name) ==
    IF coffee_name # <<>> /\ Head(coffee_name) = "["
    THEN LET id_end == IndexOf(coffee_name, "]")
             ids == Split(SubSeq(coffee_name, 2, id_end - 1), ",")
         IN  IF id_end = 0 THEN [kind |-> "error"]
             ELSE IF ~ParseInt(ids[1]).ok THEN [kind |-> "error"]
             ELSE IF Len(ids) < 2 THEN [kind |-> "error"]
             ELSE IF ~ParseInt(ids[2]).ok THEN [kind |-> "error"]
             ELSE [kind |-> "ids",
                   product_id |-> ParseInt(ids[1]).value,
                   variant_id |-> ParseInt(ids[2]).value,
                   title |-> SubSeq(coffee_name, id_end + 2, Len(coffee_name))]
    ELSE [kind |-> "title", title |-> coffee_name]

\* ... FROM available_options_view wb ... WHERE wb.product_id = :product_id
\* AND wb.variant_id = :variant_id
IdMatches(W, pid, vid) ==
    {x \in AvailableOptionsView(W) : variants[x].product_id = pid /\ x = vid}

\* ... WHERE wb.parent_title = :title AND v.option2 = 'Whole Bean'
TitleMatches(W, title) ==
    {x \in AvailableOptionsView(W) :
        variants[x].parent_title = title /\ variants[x].option2 = S_Whole_Bean}

\* the OrderHistory row add_coffee_order builds from the row of the query
OrderOfCoffeeOrder(x, order_date) ==
    LET v == variants[x]
        ed == DetailsOf(x)
    IN  [id |-> Len(orders) + 1,
         product_id |-> v.product_id,
         variant_id |-> x,
         quantity |-> 1,
         price_paid |-> v.price,
         notes |-> NULL,
         order_date |-> order_date,
         roaster_name |-> Description(RoasterOf(x)),
         product_title |-> v.parent_title,
         product_url |-> products[v.product_id].url,
         option1 |-> v.option1,
         option2 |-> v.option2,
         option3 |-> v.option3,
         is_single_origin |-> ed.is_single_origin,
         origin_country |-> ed.origin_country,
         origin_region |-> ed.origin_region,
         roast_level |-> ed.roast_level,
         processing_method |-> ed.processing_method,
         varietals |-> ed.varietals,
         altitude |-> ed.altitude,
         farm |-> ed.farm,
         producer |-> ed.producer,
         tasting_notes |-> ed.tasting_notes]

\* the identities of a set of view rows
Identities(rows) == {Identity(x) : x \in rows}

\* add_coffee_order returning None where no row is found, in place of
\* raising
AddCoffeeOrderCallSilent(coffee_name, order_date, call) ==
    LET ref == ParseReference(coffee_name)
    IN  \E W1, W2 \in WholeBeansViews :
          LET byId == IF ref.kind = "ids"
                      THEN IdMatches(W1, ref.product_id, ref.variant_id) ELSE {}
              byTitle == IF ref.kind = "ids" THEN TitleMatches(W2, ref.title)
                         ELSE IF ref.kind = "title" THEN TitleMatches(W1, ref.title)
                         ELSE {}
              rows == IF byId # {} THEN byId ELSE byTitle
          IN  IF rows = {}
              THEN /\ orders' = orders
                   /\ last' = [op |-> call, outcome |-> "returned None"]
              ELSE \E x \in rows :
                   /\ orders' = Append(orders, OrderOfCoffeeOrder(x, order_date))
                   /\ last' = [op |-> call, outcome |-> "added"]

\* add_coffee_order trying the title before the identity
AddCoffeeOrderCallTitleFirst(coffee_name, order_date, call) ==
    LET ref == ParseReference(coffee_name)
    IN  \E W1, W2 \in WholeBeansViews :
          LET byId == IF ref.kind = "ids"
                      THEN IdMatches(W1, ref.product_id, ref.variant_id) ELSE {}
              byTitle == IF ref.kind = "ids" THEN TitleMatches(W2, ref.title)
                         ELSE IF ref.kind = "title" THEN TitleMatches(W1, ref.title)
                         ELSE {}
              rows == IF byTitle # {} THEN byTitle ELSE byId
          IN  IF rows = {}
              THEN /\ orders' = orders
                   /\ last' = [op |-> call,
                               outcome |-> "ValueError: could not find product"]
              ELSE \E x \in rows :
                   /\ orders' = Append(orders, OrderOfCoffeeOrder(x, order_date))
                   /\ last' = [op |-> call, outcome |-> "added"]

\* add_coffee_order(coffee_name, order_date), called from call: the row it
\* appends and what it reports.  Each query evaluates the views anew (W1, W2); LIMIT 1
\* without ORDER BY returns any one of the matching rows.
AddCoffeeOrderCall(coffee_name, order_date, call) ==
    LET ref == ParseReference(coffee_name)
    IN  \E W1, W2 \in WholeBeansViews :
          LET byId == IF ref.kind = "ids"
                      THEN IdMatches(W1, ref.product_id, ref.variant_id) ELSE {}
              byTitle == IF ref.kind = "ids" THEN TitleMatches(W2, ref.title)
                         ELSE IF ref.kind = "title" THEN TitleMatches(W1, ref.title)
                         ELSE {}
              rows == IF byId # {} THEN byId ELSE byTitle
          IN  IF rows = {}
              THEN /\ orders' = orders
                   /\ last' = [op |-> call,
                               outcome |-> "ValueError: could not find product"]
              ELSE \E x \in rows :
                   /\ orders' = Append(orders, OrderOfCoffeeOrder(x, order_date))
                   /\ last' = [op |-> call, outcome |-> "added"]

AddCoffeeOrder(coffee_name, order_date) ==
    /\ AddCoffeeOrderCall(coffee_name, order_date, "add_coffee_order")
    /\ UNCHANGED <<roasters, products, variants, details>>

\* ------------------------------------------------------------------ reconciliation
\* order_history_view over one result W of whole_beans_view: the pairs
\* (order, view row) of  order_history oh JOIN whole_beans_view wb ON
\* oh.product_id = wb.product_id JOIN roasters r ON wb.roaster_name = r.name
OrderHistoryView(W) ==
    {<<i, x>> \in (DOMAIN orders) \X W : orders[i].product_id = variants[x].product_id}

\* order_date of one row before that of another
DateBefore(a, b) ==
    \/ a.year < b.year
    \/ a.year = b.year /\ a.month < b.month
    \/ a.year = b.year /\ a.month = b.month /\ a.day < b.day

\* SELECT * FROM order_history_view ... ORDER BY order_date DESC: the results
\* the engine can fetch, every row of the view once, no row before one of a
\* later order_date; rows of one order_date come in any order
OrderHistoryRows(W) ==
    LET V == OrderHistoryView(W)
        n == Cardinality(V)
    IN  {s \in [1..n -> V] :
            /\ \A i, j \in 1..n : i # j => s[i] # s[j]
            /\ \A i, j \in 1..n :
                  i < j => ~DateBefore(orders[s[i][1]].order_date,
                                       orders[s[j][1]].order_date)}

\* get_order_history(include_discontinued) of order_manager.py: the view has
\* no product_status column, so the filter of include_discontinued = False
\* is rejected by the engine and the grouping loop fails on its first row.
GetOrderHistory(include_discontinued) ==
    /\ \E W \in WholeBeansViews :
         last' = IF ~include_discontinued
                 THEN [op |-> "get_order_history", include_discontinued |-> FALSE,
                       outcome |-> "OperationalError: no such column: product_status"]
                 ELSE IF OrderHistoryView(W) # {}
                 THEN [op |-> "get_order_history", include_discontinued |-> TRUE,
                       outcome |-> "KeyError: product_status"]
                 ELSE [op |-> "get_order_history", include_discontinued |-> TRUE,
                       outcome |-> "returned",
                       available |-> <<>>, out_of_stock |-> <<>>,
                       discontinued |-> <<>>]
    /\ UNCHANGED <<roasters, products, variants, details, orders>>

\* ------------------------------------------------------------------ recommender
\* CoffeeRecommender.get_order_history: order_history JOIN whole_beans_view
\* ON product_id JOIN products JOIN roasters
History(W) ==
    {<<i, x>> \in (DOMAIN orders) \X W : orders[i].product_id = variants[x].product_id}

\* get_recommendation: ordered_product_ids, collected over the history rows
OrderedProductIds(Wh) == {orders[row[1]].product_id : row \in History(Wh)}

\* CoffeeRecommender.get_available_options: the rows of available_options_view
AvailableOptions(Wo) == AvailableOptionsView(Wo)

\* get_recommendation, the loop over history: counts.get(value, 0) + 1 for
\* every row whose value is set; value maps each history row to its value
Counts(value) ==
    [v \in {value[row] : row \in DOMAIN value} \ {NULL, ""} |->
        Cardinality({row \in DOMAIN value : value[row] = v})]

\* roaster_counts, origin_counts and process_counts over the history rows:
\* r.description, wb.origin_country and wb.processing_method
RoasterCounts(W) == Counts([row \in History(W) |-> Description(RoasterOf(row[2]))])
OriginCounts(W) == Counts([row \in History(W) |-> DetailsOf(row[2]).origin_country])
ProcessCounts(W) == Counts([row \in History(W) |-> DetailsOf(row[2]).processing_method])

\* the place of a roaster's description in ORDER BY r.description
DescriptionRank(r) == IF r = "acme" THEN 1 ELSE 2

\* CoffeeRecommender.get_available_options: the lists the query over
\* available_options_view JOIN roasters ... ORDER BY r.description can
\* return, every row once, no row before one of an earlier description; the
\* rows of one roaster come in any order
GetAvailableOptions(W) ==
    LET V == {x \in AvailableOptionsView(W) : RoasterOf(x) \in roasters}
        n == Cardinality(V)
    IN  {s \in [1..n -> V] :
            /\ \A i, j \in 1..n : i # j => s[i] # s[j]
            /\ \A i, j \in 1..n :
                  i < j => DescriptionRank(RoasterOf(s[i]))
                             <= DescriptionRank(RoasterOf(s[j]))}

\* get_recommendation: available_options, the list put into the prompt
Candidates(Wh, Wo) ==
    {x \in AvailableOptions(Wo) : variants[x].product_id \notin OrderedProductIds(Wh)}

\* the candidate lists get_recommendation can put into the prompt: its two
\* queries evaluate the views separately
PromptCandidates ==
    {Identities(Candidates(Wh, Wo)) : Wh \in WholeBeansViews, Wo \in WholeBeansViews}

\* get_recommendation(), the prompt listing candidates and the collaborator
\* answering with a text whose first line is response: the text is returned
\* as it is
GetRecommendation(candidates, response) == [outcome |-> "returned", text |-> response]

\* main() of recommend_coffee.py: the recommendation is shown, and on "yes"
\* the first line of the text goes to add_coffee_order
Main(response, answer, now) ==
    /\ \E candidates \in PromptCandidates :
         LET recommendation == GetRecommendation(candidates, response)
         IN  IF answer = "yes"
             THEN AddCoffeeOrderCall(Strip(recommendation.text), now, "main")
             ELSE /\ orders' = orders
                  /\ last' = [op |-> "main", outcome |-> "declined"]
    /\ UNCHANGED <<roasters, products, variants, details>>

\* ------------------------------------------------------------------ budget
\* Money is counted in cents and budget_flexibility in percent; max_price
\* is counted in hundredths of a cent, so the product is exact.

\* get_monthly_spend(history, year, month): the total of order['price']
\* over the history rows of that month
RECURSIVE SumPrices(_)
SumPrices(rows) ==
    IF rows = {} THEN 0
    ELSE LET row == CHOOSE r \in rows : TRUE
         IN  orders[row[1]].price_paid + SumPrices(rows \ {row})
GetMonthlySpend(history, year, month) ==
    SumPrices({row \in history :
                 /\ orders[row[1]].order_date.year = year
                 /\ orders[row[1]].order_date.month = month})

\* get_spending_summary(history); three_month_total is three times the
\* three_month_average
MonthsBack(now, i) ==
    IF now.month - i <= 0 THEN [year |-> now.year - 1, month |-> now.month - i + 12]
    ELSE [year |-> now.year, month |-> now.month - i]
GetSpendingSummary(history, now) ==
    [current_month |-> GetMonthlySpend(history, now.year, now.month),
     last_month |-> GetMonthlySpend(history,
                        IF now.month > 1 THEN now.year ELSE now.year - 1,
                        IF now.month > 1 THEN now.month - 1 ELSE 12),
     three_month_total |->
         GetMonthlySpend(history, MonthsBack(now, 1).year, MonthsBack(now, 1).month)
       + GetMonthlySpend(history, MonthsBack(now, 2).year, MonthsBack(now, 2).month)
       + GetMonthlySpend(history, MonthsBack(now, 3).year, MonthsBack(now, 3).month)]

\* max_price computed from the flexibility alone
MaxPriceOfFlexibility(monthly_budget, budget_flexibility) ==
    monthly_budget * budget_flexibility

\* get_recommendation: remaining_budget and max_price
RemainingBudget(monthly_budget, current_month) == monthly_budget - current_month
MaxPrice(monthly_budget, budget_flexibility) ==
    monthly_budget * (100 + budget_flexibility)

\* get_recommendation, up to the budget figures it puts into the prompt
BudgetFigures(monthly_budget, budget_flexibility, now) ==
    /\ \E W \in WholeBeansViews :
         LET spending == GetSpendingSummary(History(W), now)
         IN  last' = [op |-> "get_recommendation",
                      monthly_budget |-> monthly_budget,
                      budget_flexibility |-> budget_flexibility,
                      spending |-> spending,
                      remaining_budget |->
                          RemainingBudget(monthly_budget, spending.current_month),
                      max_price |-> MaxPrice(monthly_budget, budget_flexibility)]
    /\ UNCHANGED <<roasters, products, variants, details, orders>>

\* ------------------------------------------------------------------ inputs of the calls
Reference(pid, vid, title) ==
    <<"[", DigitChars[pid + 1], ",", DigitChars[vid + 1], "]", " ">> \o title

\* the texts handed to add_coffee_order
CoffeeNames ==
    {Reference(1, 1, T_Kenya), Reference(2, 2, T_Kenya), Reference(2, 1, T_Blend),
     T_Kenya, <<"[", "1">>, <<"[", "x", ",", "1", "]", " ">> \o T_Kenya}

\* the first line of the collaborator's answer: a bracketed identity with
\* the title, with or without a leading blank, a bare title, no identity
Responses ==
    {Reference(1, 1, T_Kenya), <<" ">> \o Reference(2, 2, T_Kenya),
     T_Kenya, <<"[", "1">>}

Now == Date(2025, 3, 13)
Earlier == Date(2025, 2, 27)

\* ------------------------------------------------------------------ specification
Init ==
    /\ roasters = {}
    /\ products = <<>>
    /\ variants = <<>>
    /\ details = <<>>
    /\ orders = <<>>
    /\ last = [op |-> "init"]

\* the bounds of the exploration: product ids stay within n, the ledger
\* within n rows
CatalogBound(n) == \A pid \in DOMAIN products' : pid <= n
LedgerBound(n) == Len(orders') <= n

\* The whole system: two roasters listing the same coffee, every operation.
Next ==
    \/ \E r \in RoasterNames : StoreData(r, ListingPlain) /\ CatalogBound(MaxProducts)
    \/ \E pid \in 1..(MaxProducts + 1) : DeleteProduct(pid)
    \/ \E pid \in 1..(MaxProducts + 1) : EnhanceSingleProduct(pid, CoffeeFull)
    \/ \E pid \in 1..(MaxProducts + 1) :
          AddOrder(pid, pid, 1, 1900, NoDate, NULL, Now) /\ LedgerBound(MaxOrders)
    \/ \E name \in CoffeeNames : AddCoffeeOrder(name, Now) /\ LedgerBound(MaxOrders)
    \/ \E b \in BOOLEAN : GetOrderHistory(b)
    \/ \E resp \in Responses, answer \in {"yes", "no"} :
          Main(resp, answer, Now) /\ LedgerBound(MaxOrders)

Spec == Init /\ [][Next]_vars

\* The catalog and the attribute store alone: every listing, every
\* extraction result, no purchase.
NextCatalog ==
    \/ \E r \in RoasterNames, listing \in Listings :
          StoreData(r, listing) /\ CatalogBound(MaxProducts)
    \/ \E pid \in 1..(MaxProducts + 1) : DeleteProduct(pid)
    \/ \E pid \in 1..(MaxProducts + 1), cd \in CoffeeData : EnhanceSingleProduct(pid, cd)

SpecCatalog == Init /\ [][NextCatalog]_vars

\* The ledger of one roaster's coffee: add_order with every combination of
\* present and absent product and variant, re-extraction, deletion.
NextLedger ==
    \/ StoreData("acme", ListingPlain) /\ CatalogBound(LedgerProducts)
    \/ \E pid \in 1..(LedgerProducts + 1) : DeleteProduct(pid)
    \/ \E pid \in 1..(LedgerProducts + 1), cd \in {CoffeeFull, CoffeeEmpty} :
          EnhanceSingleProduct(pid, cd)
    \/ \E pid \in 1..(LedgerProducts + 1), vid \in 1..(LedgerProducts + 1),
          od \in {NoDate, Earlier} :
          AddOrder(pid, vid, 1, 1900, od, NULL, Now) /\ LedgerBound(LedgerOrders)
    \/ \E b \in BOOLEAN : GetOrderHistory(b)

SpecLedger == Init /\ [][NextLedger]_vars

\* The catalog of listings with excluded variants.
NextInclusion ==
    \/ \E r \in RoasterNames, listing \in {ListingExcluded, ListingDecaf, ListingPlain} :
          StoreData(r, listing) /\ CatalogBound(MaxProducts)
    \/ \E pid \in 1..(MaxProducts + 1) : DeleteProduct(pid)
    \/ \E pid \in 1..(MaxProducts + 1), cd \in CoffeeData : EnhanceSingleProduct(pid, cd)

SpecInclusion == Init /\ [][NextInclusion]_vars

\* One coffee bought at several prices this month and last month, and the
\* budget figures for several configured budgets.
NextBudget ==
    \/ StoreData("acme", ListingPlain) /\ CatalogBound(BudgetProducts)
    \/ \E price \in {1500, 2000, 3500}, od \in {NoDate, Earlier} :
          AddOrder(1, 1, 1, price, od, NULL, Now) /\ LedgerBound(BudgetOrders)
    \/ \E monthly_budget \in {3000, 4000}, budget_flexibility \in {0, 15} :
          BudgetFigures(monthly_budget, budget_flexibility, Now)

SpecBudget == Init /\ [][NextBudget]_vars

\* add_order called with quantities and prices of either sign.
NextValidation ==
    \/ StoreData("acme", ListingPlain) /\ CatalogBound(LedgerProducts)
    \/ \E pid \in 1..(LedgerProducts + 1) : DeleteProduct(pid)
    \/ \E pid \in 1..(LedgerProducts + 1), quantity \in {0 - 1, 0, 1, 2},
          price_paid \in {0 - 500, 1900} :
          AddOrder(pid, pid, quantity, price_paid, NoDate, NULL, Now)
             /\ LedgerBound(LedgerOrders)

SpecValidation == Init /\ [][NextValidation]_vars

\* One coffee in three pack sizes, bought in any of them.
NextCandidates ==
    \/ StoreData("acme", ListingSizes) /\ CatalogBound(MaxProducts)
    \/ \E pid \in 1..(MaxProducts + 1) : DeleteProduct(pid)
    \/ \E pid \in 1..(MaxProducts + 1) : EnhanceSingleProduct(pid, CoffeeFull)
    \/ \E pid \in 1..(MaxProducts + 1), vid \in 1..(3 * MaxProducts) :
          AddOrder(pid, vid, 1, 1900, NoDate, NULL, Now) /\ LedgerBound(MaxOrders)

SpecCandidates == Init /\ [][NextCandidates]_vars

\* The budget figures over a ledger whose products come and go.
NextSpend ==
    \/ StoreData("acme", ListingPlain) /\ CatalogBound(BudgetProducts)
    \/ \E pid \in 1..(BudgetProducts + 1) : DeleteProduct(pid)
    \/ \E price \in {1500, 2000, 3500}, od \in {NoDate, Earlier} :
          AddOrder(1, 1, 1, price, od, NULL, Now) /\ LedgerBound(BudgetOrders)
    \/ \E monthly_budget \in {3000, 4000} : BudgetFigures(monthly_budget, 15, Now)

SpecSpend == Init /\ [][NextSpend]_vars

\* The order resolver alone: two roasters listing the same coffee, and
\* add_coffee_order with a bracketed reference, a bracketed reference whose
\* title matches nothing, a bare title and a broken reference, each on a day
\* of its own.
ResolveCalls ==
    {<<Reference(1, 1, T_Kenya), Date(2025, 3, 1)>>,
     <<Reference(2, 2, T_Blend), Date(2025, 3, 2)>>,
     <<T_Kenya, Date(2025, 3, 3)>>,
     <<(<<"[", "1">>), Date(2025, 3, 4)>>}

NextResolve ==
    \/ \E r \in RoasterNames : StoreData(r, ListingPlain) /\ CatalogBound(MaxProducts)
    \/ \E pid \in 1..(MaxProducts + 1) : DeleteProduct(pid)
    \/ \E pid \in 1..(MaxProducts + 1) : EnhanceSingleProduct(pid, CoffeeFull)
    \/ \E c \in ResolveCalls : AddCoffeeOrder(c[1], c[2]) /\ LedgerBound(LedgerOrders)

SpecResolve == Init /\ [][NextResolve]_vars

\* enhance_products over a catalog refreshed while a coffee sells out and
\* comes back.
NextEnhance ==
    \/ \E listing \in {ListingPlain, ListingSoldOut, ListingAmp} :
          StoreData("acme", listing) /\ CatalogBound(MaxProducts)
    \/ \E pid \in 1..(MaxProducts + 1) : DeleteProduct(pid)
    \/ EnhanceProducts({CoffeeFull, CoffeeEmpty})

SpecEnhance == Init /\ [][NextEnhance]_vars

\* The attribute store step by step, with interruptions.
NextAtomic ==
    \/ \E r \in RoasterNames :
          Idle /\ StoreData(r, ListingPlain) /\ CatalogBound(MaxProducts)
    \/ \E pid \in 1..(MaxProducts + 1) : Idle /\ DeleteProduct(pid)
    \/ \E pid \in 1..(MaxProducts + 1), cd \in CoffeeData :
          Idle /\ StoreExtendedDetailsDelete(pid, cd)
    \/ StoreExtendedDetailsAdd
    \/ StoreExtendedDetailsInterrupted

SpecAtomic == Init /\ [][NextAtomic]_vars

\* One roaster's catalog of titles with and without the blend markers,
\* extraction flagging single origin, blend or nothing.
NextClassify ==
    \/ \E listing \in {ListingPlain, ListingBlend, ListingAnd, ListingAmp} :
          StoreData("acme", listing) /\ CatalogBound(MaxProducts)
    \/ \E pid \in 1..(MaxProducts + 1) : DeleteProduct(pid)
    \/ \E pid \in 1..(MaxProducts + 1), cd \in {CoffeeFull, CoffeeEmpty, CoffeeBlended} :
          EnhanceSingleProduct(pid, cd)
    \/ \E pid \in 1..(MaxProducts + 1) :
          AddOrder(pid, pid, 1, 1900, NoDate, NULL, Now) /\ LedgerBound(MaxOrders)

SpecClassify == Init /\ [][NextClassify]_vars

\* ------------------------------------------------------------------ properties
\* C1: whatever result the engine produces for whole_beans_view, it holds
\* at most one row per (parent title, roaster) group, it holds a row for
\* every group with a variant that passes the WHERE clause, and each row
\* is such a variant with the least grams of its group.
OneMinimalOfferPerGroup ==
    \A W \in WholeBeansViews :
        /\ \A a, b \in W : GroupKey(a) = GroupKey(b) => a = b
        /\ \A v \in RankedVariants : \E x \in W : GroupKey(x) = GroupKey(v)
        /\ \A x \in W :
              /\ x \in RankedVariants
              /\ \A v \in RankedVariants :
                    GroupKey(v) = GroupKey(x) => variants[x].grams <= variants[v].grams

\* C1, its case: a group with a 200 g, a 250 g and a 1000 g variant, the
\* first two passing the WHERE clause, and the 200 g one is the offer
GroupOfThreeSizes ==
    \E W \in WholeBeansViews : \E x \in W :
        /\ variants[x].grams = 200
        /\ \E y \in RankedVariants :
              GroupKey(y) = GroupKey(x) /\ variants[y].grams = 250
        /\ \E z \in DOMAIN variants :
              /\ variants[z].product_id = variants[x].product_id
              /\ variants[z].parent_title = variants[x].parent_title
              /\ variants[z].grams = 1000

\* C2: no row of available_options_view, no row get_available_options
\* returns and no option get_recommendation lists has a (product id,
\* variant id) pair that an order_history row holds.
UnorderedOffersExcludeLedger ==
    LET ledger == {<<orders[i].product_id, orders[i].variant_id>> : i \in DOMAIN orders}
    IN  /\ \A W \in WholeBeansViews :
              /\ \A x \in AvailableOptionsView(W) : Identity(x) \notin ledger
              /\ \A x \in AvailableOptions(W) : Identity(x) \notin ledger
        /\ \A candidates \in PromptCandidates : candidates \cap ledger = {}

\* C2, its case: a purchased offer is still a single-origin row of
\* whole_beans_view, and another offer is left to recommend
PurchasedOfferStillListed ==
    \E W \in WholeBeansViews :
        /\ \E x \in W : ~NotOrdered(x) /\ CoffeeType(x) = "Single Origin"
        /\ AvailableOptionsView(W) # {}

\* C3: no step changes or removes an order_history row's purchase-time
\* columns, whatever is stored, re-extracted or deleted afterwards.
SnapshotsNeverChange ==
    [][\A i \in DOMAIN orders :
          /\ i \in DOMAIN orders'
          /\ \A f \in SnapshotFields : orders'[i][f] = orders[i][f]]_vars

\* C3, its case: the ledger holds an order whose product has been deleted
\* and an order whose product's attributes were extracted anew since
SnapshotsOutliveTheirSource ==
    /\ \E i \in DOMAIN orders : orders[i].product_id \notin DOMAIN products
    /\ \E i \in DOMAIN orders :
          /\ orders[i].product_id \in DOMAIN details
          /\ details[orders[i].product_id].roast_level # orders[i].roast_level

\* C4: whenever main() obtains a recommendation, either the selector
\* raised ContractViolation or the first line of the collaborator's
\* response starts with a bracketed (product id, variant id) that is one
\* of the candidates listed in the prompt.
SelectorReturnsOnlyCandidates ==
    [][\A resp \in Responses, answer \in {"yes", "no"} :
          Main(resp, answer, Now) =>
              LET ref == ParseReference(Strip(resp))
              IN  \/ last'.outcome = "ContractViolation"
                  \/ /\ ref.kind = "ids"
                     /\ \E candidates \in PromptCandidates :
                           <<ref.product_id, ref.variant_id>> \in candidates]_vars

\* C5: after get_order_history() with its default argument, the three
\* lists returned hold one entry for every order_history row.
ReconcileReportsEveryOrder ==
    (last.op = "get_order_history" /\ last.include_discontinued) =>
        /\ last.outcome = "returned"
        /\ Len(last.available) + Len(last.out_of_stock) + Len(last.discontinued)
              = Len(orders)

\* C6: add_coffee_order with a bare title that more than one row of the
\* unordered offers matches, whatever the view's result, appends nothing
\* and fails with Ambiguous.
AmbiguousTitleFails ==
    [][\A name \in CoffeeNames :
          LET ref == ParseReference(name)
          IN  (/\ AddCoffeeOrder(name, Now)
               /\ ref.kind = "title"
               /\ \A W \in WholeBeansViews : Cardinality(TitleMatches(W, ref.title)) > 1)
                  => (orders' = orders /\ last'.outcome = "Ambiguous")]_vars

\* C7: add_order with a product id or a variant id that no row has raises
\* the not-found ValueError and leaves order_history as it was.
AddOrderMissingReference ==
    [][\A pid \in 1..(LedgerProducts + 1), vid \in 1..(LedgerProducts + 1),
         od \in {NoDate, Earlier} :
          (/\ AddOrder(pid, vid, 1, 1900, od, NULL, Now)
           /\ (pid \notin DOMAIN products \/ vid \notin DOMAIN variants))
              => /\ orders' = orders
                 /\ last'.outcome \in {"ValueError: product not found",
                                       "ValueError: variant not found"}]_vars

\* C7, its case: add_order has just failed on a missing variant of an
\* existing product, with orders in the ledger
MissingVariantRefused ==
    /\ last.op = "add_order"
    /\ last.outcome = "ValueError: variant not found"
    /\ orders # <<>>
    /\ products # <<>>

\* C8: add_order with an existing product and variant always succeeds,
\* appends exactly one row after the rows the ledger held, and changes no
\* roaster, product, variant or attribute row; a ledger that already
\* holds the same purchase makes no difference.
AddOrderOnlyAppends ==
    [][\A pid \in 1..(LedgerProducts + 1), vid \in 1..(LedgerProducts + 1),
         od \in {NoDate, Earlier} :
          (/\ AddOrder(pid, vid, 1, 1900, od, NULL, Now)
           /\ pid \in DOMAIN products /\ vid \in DOMAIN variants)
              => /\ last'.outcome = "added"
                 /\ Len(orders') = Len(orders) + 1
                 /\ SubSeq(orders', 1, Len(orders)) = orders
                 /\ orders'[Len(orders')].product_id = pid
                 /\ orders'[Len(orders')].variant_id = vid
                 /\ UNCHANGED <<roasters, products, variants, details>>]_vars

\* C8, its case: add_order was called twice with the same arguments and
\* the ledger holds two rows that differ in their id only
SamePurchaseTwice ==
    /\ last.op = "add_order" /\ last.outcome = "added"
    /\ \E i, j \in DOMAIN orders :
          i # j /\ [orders[i] EXCEPT !.id = orders[j].id] = orders[j]

\* C9: the row a successful add_order appends carries the product's
\* product_extended_details values of that moment, or NULL in each of
\* these columns where the product has no such row, and option1..option3
\* of the variant the call names.
AddOrderSnapshotsAttributes ==
    [][\A pid \in 1..(LedgerProducts + 1), vid \in 1..(LedgerProducts + 1),
         od \in {NoDate, Earlier} :
          (/\ AddOrder(pid, vid, 1, 1900, od, NULL, Now)
           /\ last'.outcome = "added")
              => LET order == orders'[Len(orders')]
                     attributes == {"is_single_origin", "origin_country", "origin_region",
                                    "roast_level", "processing_method", "varietals",
                                    "altitude", "farm", "producer", "tasting_notes"}
                 IN  /\ \A f \in attributes :
                           order[f] = IF pid \in DOMAIN details
                                      THEN details[pid][f] ELSE NoDetails[f]
                     /\ \A f \in {"option1", "option2", "option3"} :
                           order[f] = variants[vid][f]]_vars

\* C9, its case: the ledger holds an order taken while the product had
\* attributes and an order taken while it had none
SnapshotWithAndWithoutAttributes ==
    /\ \E i \in DOMAIN orders : orders[i].roast_level # NULL
    /\ \E i \in DOMAIN orders : orders[i].roast_level = NULL /\ orders[i].is_single_origin = NullInt

\* C10: whole_beans_view has one possible result in every state of the
\* catalog, so evaluating it again yields the same offers.
CanonicalSetDetermined == Cardinality(WholeBeansViews) = 1

\* C11: every row of whole_beans_view is a variant whose option2 contains
\* "bean", whose option1 contains "250" or "200g", whose parent title
\* contains none of espresso, subscription, decaf, voucher in any case,
\* whose vendor is not the excluded one, whose option3 is not
\* READY TO DRINK and which is available.
OffersPassEveryCondition ==
    \A W \in WholeBeansViews : \A x \in W :
        LET v == variants[x]
            title == Lower(v.parent_title)
        IN  /\ Contains(Lower(v.option2), S_bean)
            /\ (Contains(Lower(v.option1), S_250) \/ Contains(Lower(v.option1), S_200g))
            /\ \A marker \in {S_espresso, S_subscription, S_decaf, S_voucher} :
                  ~Contains(title, marker)
            /\ v.vendor # S_AAZ_B2B
            /\ v.option3 # S_READY_TO_DRINK
            /\ v.available = 1

\* C11, its case: the offer of a group is its 250 g variant while the
\* group holds lighter variants that are sold out, ground, of the
\* excluded vendor and of an unsupported size, and a decaf is stored
LighterVariantsExcluded ==
    \E W \in WholeBeansViews : \E x \in W :
        LET group == {y \in DOMAIN variants :
                        /\ variants[y].product_id = variants[x].product_id
                        /\ variants[y].parent_title = variants[x].parent_title
                        /\ variants[y].grams < variants[x].grams
                        /\ y \notin W}
        IN  /\ \E y \in group : variants[y].available = 0
            /\ \E y \in group : variants[y].option2 = O_Ground
            /\ \E y \in group : variants[y].vendor = S_AAZ_B2B
            /\ \E y \in group : variants[y].option1 = O_100g
            /\ \E z \in DOMAIN variants : variants[z].parent_title = T_Decaf

\* C12: the coffee_type of every row of whole_beans_view is Blend where
\* the parent title contains "blend" in any case; otherwise Single Origin
\* or Blend as the stored is_single_origin flag says; otherwise, the flag
\* being NULL, Blend where the title contains " and " or " & "; otherwise
\* Unknown.
ClassifiedByFirstRule ==
    \A W \in WholeBeansViews : \A x \in W :
        LET title == Lower(variants[x].parent_title)
            pid == variants[x].product_id
            flag == IF pid \in DOMAIN details THEN details[pid].is_single_origin
                    ELSE NullInt
            blend == Contains(title, S_blend)
            conjunction == Contains(title, S_and) \/ Contains(title, S_amp)
        IN  /\ blend => CoffeeType(x) = "Blend"
            /\ (~blend /\ flag = 1) => CoffeeType(x) = "Single Origin"
            /\ (~blend /\ flag = 0) => CoffeeType(x) = "Blend"
            /\ (~blend /\ flag = NullInt /\ conjunction) => CoffeeType(x) = "Blend"
            /\ (~blend /\ flag = NullInt /\ ~conjunction) => CoffeeType(x) = "Unknown"

\* C12, its case: an offer titled "... BLEND" flagged single origin is a
\* Blend, and an offer titled "... and ..." flagged single origin is a
\* Single Origin
FlagAgainstTitle ==
    \E W \in WholeBeansViews : \E x, y \in W :
        /\ variants[x].parent_title = T_Blend
        /\ DetailsOf(x).is_single_origin = 1
        /\ CoffeeType(x) = "Blend"
        /\ variants[y].parent_title = T_And
        /\ DetailsOf(y).is_single_origin = 1
        /\ CoffeeType(y) = "Single Origin"

\* C13: every row of available_options_view, every row
\* get_available_options returns and every option get_recommendation
\* lists is classified Single Origin.
UnorderedOffersAreSingleOrigin ==
    /\ \A W \in WholeBeansViews :
          /\ \A x \in AvailableOptionsView(W) : CoffeeType(x) = "Single Origin"
          /\ \A x \in AvailableOptions(W) : CoffeeType(x) = "Single Origin"
    /\ \A candidates \in PromptCandidates :
          \A identity \in candidates : CoffeeType(identity[2]) = "Single Origin"

\* C13, its case: of two offers never purchased, the Blend is left out of
\* available_options_view and the Single Origin is in it
BlendLeftOut ==
    \E W \in WholeBeansViews : \E x, y \in W :
        /\ NotOrdered(x) /\ CoffeeType(x) = "Blend"
        /\ x \notin AvailableOptionsView(W)
        /\ y \in AvailableOptionsView(W)

\* C14: add_coffee_order with a reference that no row of the unordered
\* offers matches, by its identifiers or by its title, or whose bracketed
\* identifiers do not parse, raises the could-not-find ValueError and
\* leaves order_history as it was.
UnmatchedReferenceFails ==
    [][\A name \in CoffeeNames :
          LET ref == ParseReference(name)
              unmatched ==
                  \/ ref.kind = "error"
                  \/ /\ ref.kind = "title"
                     /\ \A W \in WholeBeansViews : TitleMatches(W, ref.title) = {}
                  \/ /\ ref.kind = "ids"
                     /\ \A W \in WholeBeansViews :
                           /\ IdMatches(W, ref.product_id, ref.variant_id) = {}
                           /\ TitleMatches(W, ref.title) = {}
          IN  (AddCoffeeOrder(name, Now) /\ unmatched)
                  => /\ orders' = orders
                     /\ last'.outcome = "ValueError: could not find product"]_vars

\* C14, its case: add_coffee_order has just failed while an offer is
\* available and the ledger holds an order
ReferenceNotFound ==
    /\ last.op = "add_coffee_order"
    /\ last.outcome = "ValueError: could not find product"
    /\ orders # <<>>
    /\ \E W \in WholeBeansViews : AvailableOptionsView(W) # {}

\* C15: the figures get_recommendation puts into the prompt are
\* remaining = budget - current-month spend and maximum = budget * (1 +
\* flexibility); a budget of 40.00 with flexibility 15 % and 35.00 spent
\* this month gives 5.00 and 46.00.
BudgetFiguresComputed ==
    last.op = "get_recommendation" =>
        /\ last.remaining_budget = last.monthly_budget - last.spending.current_month
        /\ last.max_price
              = 100 * last.monthly_budget + last.budget_flexibility * last.monthly_budget
        /\ (/\ last.monthly_budget = 4000
            /\ last.budget_flexibility = 15
            /\ last.spending.current_month = 3500)
              => (last.remaining_budget = 500 /\ last.max_price = 460000)

\* C15, its case: budget 40.00, flexibility 15 %, 35.00 spent this month
BudgetOfForty ==
    /\ last.op = "get_recommendation"
    /\ last.monthly_budget = 4000
    /\ last.budget_flexibility = 15
    /\ last.spending.current_month = 3500

\* C16: after store_data for a roaster, the products stored for that
\* roaster are the products of the listing just supplied, one row each,
\* and their variants are the listing's variants.
RefreshReplacesListing ==
    [][\A r \in RoasterNames, listing \in Listings :
          StoreData(r, listing) =>
              LET stored == {pid \in DOMAIN products' : products'[pid].roaster = r}
              IN  /\ Cardinality(stored) = Len(listing)
                  /\ \A pid \in stored : \E k \in DOMAIN listing :
                        /\ products'[pid].title = listing[k].title
                        /\ Cardinality({v \in DOMAIN variants' :
                                           variants'[v].product_id = pid})
                              = Len(listing[k].variants)]_vars

RewriteIsAtomic ==
    (last.op = "store_extended_details" /\ last.pc = "interrupted") =>
        \/ details = last.before
        \/ details = [p \in DOMAIN last.before \cup {last.product_id} |->
                         IF p = last.product_id THEN ExtendedDetails(last.coffee_data)
                         ELSE last.before[p]]

\* C19: deleting a product removes its row, its variants and its
\* product_extended_details row, keeps every other product, variant and
\* attribute row, and leaves order_history as it was, the orders of the
\* deleted product included.
DeleteCascadesButKeepsOrders ==
    [][\A pid \in 1..(MaxProducts + 1) :
          DeleteProduct(pid) =>
              /\ DOMAIN products' = DOMAIN products \ {pid}
              /\ \A p \in DOMAIN products' : products'[p] = products[p]
              /\ DOMAIN variants'
                    = {v \in DOMAIN variants : variants[v].product_id # pid}
              /\ \A v \in DOMAIN variants' : variants'[v] = variants[v]
              /\ DOMAIN details' = DOMAIN details \ {pid}
              /\ \A p \in DOMAIN details' : details'[p] = details[p]
              /\ orders' = orders]_vars

\* C19, its case: a product that had variants, an attribute record and an
\* order has just been deleted; the order is in the ledger with the roast
\* level it was bought with
OrderOutlivesProduct ==
    /\ last.op = "delete_product"
    /\ \E i \in DOMAIN orders :
          /\ orders[i].product_id \notin DOMAIN products
          /\ orders[i].variant_id \notin DOMAIN variants
          /\ orders[i].product_id \notin DOMAIN details
          /\ orders[i].roast_level = "Light"

\* C20: after get_order_history() with its default argument, the call has
\* returned and its lists, taken together, hold the rows of
\* order_history_view in descending order_date.
ReconcileSortedByDate ==
    (last.op = "get_order_history" /\ last.include_discontinued) =>
        /\ last.outcome = "returned"
        /\ \E W \in WholeBeansViews :
              Len(last.available \o last.out_of_stock \o last.discontinued)
                 \in {Len(rows) : rows \in OrderHistoryRows(W)}

\* C21: whatever the store holds, get_available_options can return one
\* sequence of unordered offers only, the one ordered by roaster description
\* and then parent title.
AvailableOptionsSequenceDetermined ==
    \A W \in WholeBeansViews : Cardinality(GetAvailableOptions(W)) = 1

\* C22: add_order called with a negative quantity appends no order_history
\* row and does not end with the order added.
NegativeQuantityRefused ==
    [][\A pid \in 1..(LedgerProducts + 1), quantity \in {0 - 1, 0, 1, 2},
         price_paid \in {0 - 500, 1900} :
          (AddOrder(pid, pid, quantity, price_paid, NoDate, NULL, Now) /\ quantity < 0)
             => (orders' = orders /\ last'.outcome # "added")]_vars

\* C23: the candidates get_recommendation puts into the prompt are the rows
\* of available_options_view, all of them and no other.
CandidatesAreUnorderedOffers ==
    \A W \in WholeBeansViews : Candidates(W, W) = AvailableOptionsView(W)

\* C24: the spending figures of get_recommendation are those of the whole
\* ledger: current_month is the sum of price_paid over every order_history
\* row dated in the current month, and the trailing figure the sum over
\* every row dated in the three months before it.
SpendCountsEveryOrder ==
    last.op = "get_recommendation" =>
        LET ledger == {<<i, 0>> : i \in DOMAIN orders}
        IN  /\ last.spending.current_month = GetMonthlySpend(ledger, Now.year, Now.month)
            /\ last.spending.three_month_total
                  = GetSpendingSummary(ledger, Now).three_month_total

\* C25: the histograms of get_recommendation count the order_history rows:
\* each maps a value to the number of rows carrying it as roaster,
\* origin_country or processing_method, rows with the field unset left out.
HistogramsCountLedger ==
    \A W \in WholeBeansViews :
        /\ RoasterCounts(W)
              = [v \in {Description(orders[i].roaster_name) : i \in DOMAIN orders} |->
                   Cardinality({i \in DOMAIN orders :
                                  Description(orders[i].roaster_name) = v})]
        /\ OriginCounts(W)
              = [v \in {orders[i].origin_country : i \in DOMAIN orders} \ {NULL, ""} |->
                   Cardinality({i \in DOMAIN orders : orders[i].origin_country = v})]
        /\ ProcessCounts(W)
              = [v \in {orders[i].processing_method : i \in DOMAIN orders} \ {NULL, ""} |->
                   Cardinality({i \in DOMAIN orders : orders[i].processing_method = v})]

\* C26: add_coffee_order with a bracketed reference whose identity is in
\* the unordered offers appends an order with exactly that product id and
\* variant id; where the identity is not there, and for a bare title, it
\* appends an offer whose title matches (whenever the view has one), or
\* nothing when no title matches;
\* a reference that cannot be read appends nothing.
ResolutionOrder ==
    [][\A c \in ResolveCalls :
          LET ref == ParseReference(c[1])
              hit == /\ ref.kind = "ids"
                     /\ \A W \in WholeBeansViews :
                           IdMatches(W, ref.product_id, ref.variant_id) # {}
              miss == /\ ref.kind = "ids"
                      /\ \A W \in WholeBeansViews :
                            IdMatches(W, ref.product_id, ref.variant_id) = {}
              titles == UNION {Identities(TitleMatches(W, ref.title)) :
                                 W \in WholeBeansViews}
              new == orders'[Len(orders')]
          IN  AddCoffeeOrder(c[1], c[2]) =>
                /\ hit => /\ last'.outcome = "added"
                          /\ Len(orders') = Len(orders) + 1
                          /\ new.product_id = ref.product_id
                          /\ new.variant_id = ref.variant_id
                /\ (miss \/ ref.kind = "title") =>
                      /\ titles = {} => (orders' = orders /\ last'.outcome # "added")
                      /\ (\A W \in WholeBeansViews : TitleMatches(W, ref.title) # {})
                            => last'.outcome = "added"
                      /\ last'.outcome = "added" =>
                            /\ Len(orders') = Len(orders) + 1
                            /\ <<new.product_id, new.variant_id>> \in titles
                /\ ref.kind = "error" => orders' = orders]_vars

\* C26, its case: the bracketed reference [1,1] of the first of March did
\* not find its identity among the unordered offers and the order appended
\* is the other roaster's offer of the same title
FellBackToTitle ==
    /\ last.op = "add_coffee_order"
    /\ last.outcome = "added"
    /\ orders[Len(orders)].order_date = Date(2025, 3, 1)
    /\ orders[Len(orders)].product_id = 2
    /\ orders[Len(orders)].variant_id = 2

\* C27: add_order called with a variant that exists and belongs to another
\* product than the one named appends no order_history row.
AddOrderVariantOfProduct ==
    [][\A pid \in 1..(LedgerProducts + 1), vid \in 1..(LedgerProducts + 1),
         od \in {NoDate, Earlier} :
          (/\ AddOrder(pid, vid, 1, 1900, od, NULL, Now)
           /\ pid \in DOMAIN products
           /\ vid \in DOMAIN variants
           /\ variants[vid].product_id # pid)
             => (orders' = orders /\ last'.outcome # "added")]_vars

\* C28: the order_history row add_coffee_order has just appended has the
\* snapshot columns of the row add_order builds for the same product id and
\* variant id, quantity 1, the offer's price and the same order date.
ResolverAgreesWithAddOrder ==
    (last.op = "add_coffee_order" /\ last.outcome = "added") =>
        LET new == orders[Len(orders)]
            same == OrderOfAddOrder(new.product_id, new.variant_id, 1,
                                    variants[new.variant_id].price,
                                    new.order_date, NULL, Now)
        IN  \A f \in SnapshotFields : new[f] = same[f]

\* C29: where add_coffee_order alone appends to the ledger, no two
\* order_history rows have the same product id and variant id.
NoIdentityRecordedTwice ==
    \A i, j \in DOMAIN orders :
        (/\ orders[i].product_id = orders[j].product_id
         /\ orders[i].variant_id = orders[j].variant_id) => i = j

\* C29, its case: the bracketed reference [1,1] of the first of March was
\* handed to add_coffee_order twice and both calls appended an order
SameReferenceTwice ==
    /\ Len(orders) = 2
    /\ orders[1].order_date = Date(2025, 3, 1)
    /\ orders[2].order_date = Date(2025, 3, 1)
    /\ orders[1].product_id = 1
    /\ orders[1].variant_id = 1
    /\ last.op = "add_coffee_order"

\* C30: when enhance_products() has completed, the product of every row of
\* whole_beans_view has a product_extended_details row.
EveryOfferEnhanced ==
    last.op = "enhance_products" =>
        \A W \in WholeBeansViews :
            \A x \in W : variants[x].product_id \in DOMAIN details

====
